---- MODULE Spec2Model ----
(***************************************************************************)
(* The model layer of rust_heart_disease_predictor: the Model trait        *)
(* {train, predict}, its four implementations (LogisticRegression,         *)
(* GaussianNB, KNN, DecisionTree), the VotingClassifier that composes      *)
(* them, and calculate_metrics.                                            *)
(*                                                                         *)
(* Numbers.  Feature values, labels and counts are small integers.  An     *)
(* f32 that the code obtains by division only (means, variances, priors,   *)
(* Gini impurities, metrics) is kept as an exact fraction in lowest terms, *)
(* together with the IEEE special values the code can produce (0.0/0.0 is  *)
(* NaN).  An f32 that goes through exp, ln or sqrt (weights, log           *)
(* posteriors, distances) is kept in fixed point, in units of 1/Scale.     *)
(*                                                                         *)
(* Hash maps.  std::collections::HashMap::new() seeds every map with its   *)
(* own RandomState, so the order in which a map enumerates its keys is not *)
(* fixed by the program: each enumeration order of the keys present is a   *)
(* possible outcome.  A map built inside a call gets a fresh order on      *)
(* every call; a map held in a field keeps the order it has.               *)
(***************************************************************************)
EXTENDS Integers, Sequences, FiniteSets, TLC

\* ------------------------------------------------------------------------
\* Bounds of the model
\* ------------------------------------------------------------------------
MaxData == 2
MaxTest == 4
MaxMembers == 3
MaxTrains == 2
MaxEpochs == 2
MaxStored == 3
MaxTreeData == 4
MaxFitData == 3

\* ------------------------------------------------------------------------
\* preprocessing.rs: ProcessedPatientRecord
\* ------------------------------------------------------------------------
Labels == {0, 1}

FeatureVectors == {<<0>>, <<1>>}

ProcessedPatientRecord == [features : FeatureVectors, target : Labels]

RECURSIVE SeqsUpTo(_, _)
SeqsUpTo(S, n) ==
    IF n = 0 THEN {<<>>}
    ELSE LET shorter == SeqsUpTo(S, n - 1)
         IN  shorter \cup {Append(s, x) : s \in {t \in shorter : Len(t) = n - 1}, x \in S}

DataSets == SeqsUpTo(ProcessedPatientRecord, MaxData)

TestSets == SeqsUpTo(ProcessedPatientRecord, MaxTest)

Range(s) == {s[i] : i \in DOMAIN s}

\* ------------------------------------------------------------------------
\* f32 values obtained by division: exact fractions and IEEE specials
\* ------------------------------------------------------------------------
RECURSIVE GCD(_, _)
GCD(a, b) == IF b = 0 THEN a ELSE GCD(b, a % b)

Abs(x) == IF x < 0 THEN -x ELSE x

NaN == [k |-> "nan", n |-> 0, d |-> 1]

PosInf == [k |-> "inf", n |-> 1, d |-> 1]

NegInf == [k |-> "inf", n |-> -1, d |-> 1]

\* n/d in lowest terms, d > 0
Frac(n, d) ==
    LET g == GCD(Abs(n), Abs(d))
        s == IF d < 0 THEN -1 ELSE 1
    IN  [k |-> "num", n |-> (s * n) \div g, d |-> (s * d) \div g]

Zero == Frac(0, 1)

\* a as f32 / b as f32 for integers a, b: x/0.0 is an infinity, 0.0/0.0 is NaN
FDiv(a, b) ==
    IF b # 0 THEN Frac(a, b)
    ELSE IF a = 0 THEN NaN
    ELSE IF a > 0 THEN PosInf ELSE NegInf

IsNum(x) == x.k = "num"

\* x > y on f32: false as soon as one side is NaN
FGt(x, y) ==
    /\ x.k # "nan"
    /\ y.k # "nan"
    /\ IF x.k = "inf" THEN x.n > 0 /\ ~(y.k = "inf" /\ y.n > 0)
       ELSE IF y.k = "inf" THEN y.n < 0
       ELSE x.n * y.d > y.n * x.d

\* ------------------------------------------------------------------------
\* Hash map enumeration and Iterator::max_by_key
\* ------------------------------------------------------------------------
\* the enumeration orders a HashMap with key set `keys` can have
HashOrders(keys) ==
    {o \in [1..Cardinality(keys) -> keys] : \A i, j \in DOMAIN o : o[i] = o[j] => i = j}

\* the tally built by `*vote_counts.entry(vote).or_insert(0) += 1`
CountVotes(votes) ==
    [l \in Range(votes) |-> Cardinality({i \in DOMAIN votes : votes[i] = l})]

\* Iterator::max_by_key over the entries in enumeration order `order`:
\* the last entry with the maximal count; `none` when there is no entry
RECURSIVE MaxByKeyFrom(_, _, _, _)
MaxByKeyFrom(order, counts, i, best) ==
    IF i > Len(order) THEN best
    ELSE MaxByKeyFrom(order, counts, i + 1,
                      IF counts[order[i]] >= counts[best] THEN order[i] ELSE best)

MaxByKey(order, counts, none) ==
    IF Len(order) = 0 THEN none ELSE MaxByKeyFrom(order, counts, 2, order[1])

\* ------------------------------------------------------------------------
\* f32 values that go through exp, ln or sqrt: fixed point, units of 1/Scale
\* ------------------------------------------------------------------------
Scale == 10^4

\* floor of the square root of n >= 0
RECURSIVE ISqrtIn(_, _, _)
ISqrtIn(n, lo, hi) ==
    IF lo >= hi THEN lo
    ELSE LET mid == (lo + hi + 1) \div 2
         IN  IF mid * mid <= n THEN ISqrtIn(n, mid, hi) ELSE ISqrtIn(n, lo, mid - 1)

\* f32::sqrt of the integer n >= 0, in units of 1/Scale; above 21 the last two
\* digits are not computed
Sqrt(n) ==
    IF n <= 21 THEN ISqrtIn(n * Scale * Scale, 0, 46340)
    ELSE 100 * ISqrtIn(n * Scale, 0, 46340)

\* 1/(1+e^-z) at z = 0, 1, ..., 10, in units of 1/Scale
SigmoidKnots == <<5000, 7311, 8808, 9526, 9820, 9933, 9975, 9991, 9997, 9999, 10000>>

SigmoidPos(z) ==
    LET i == z \div Scale
        r == z % Scale
    IN  IF i + 2 > Len(SigmoidKnots) THEN SigmoidKnots[Len(SigmoidKnots)]
        ELSE SigmoidKnots[i + 1] + ((SigmoidKnots[i + 2] - SigmoidKnots[i + 1]) * r) \div Scale

\* LogisticRegression::sigmoid, z and the result in units of 1/Scale
sigmoid(z) == IF z < 0 THEN Scale - SigmoidPos(-z) ELSE SigmoidPos(z)

Min(a, b) == IF a < b THEN a ELSE b

\* ------------------------------------------------------------------------
\* models/logistic_regression.rs
\* ------------------------------------------------------------------------
\* learning_rate = LearningRateNum / LearningRateDen (main.rs passes 0.01)
LearningRateNum == 1

LearningRateDen == 100

LogisticRegression_new(epochs) ==
    [kind |-> "LR", weights |-> <<>>, epochs |-> epochs]

\* record.features with the bias input 1.0 inserted in front
WithBias(features) == <<1>> \o features

\* features_with_bias.iter().zip(weights.iter()).map(|(f, w)| f * w).sum():
\* zip stops at the shorter of the two
RECURSIVE DotFrom(_, _, _)
DotFrom(inputs, weights, i) ==
    IF i > Min(Len(inputs), Len(weights)) THEN 0
    ELSE inputs[i] * weights[i] + DotFrom(inputs, weights, i + 1)

Dot(inputs, weights) == DotFrom(inputs, weights, 1)

\* the body of the inner loop of train: one record, every weight updated at once
UpdateWeights(weights, record) ==
    LET inputs == WithBias(record.features)
        prediction == sigmoid(Dot(inputs, weights))
        error == record.target * Scale - prediction
    IN  [i \in DOMAIN weights |->
            weights[i] + (LearningRateNum * error * inputs[i]) \div LearningRateDen]

\* an epoch that computes every error with the weights `start` it began with
\* and adds the updates of the records from the i-th on to `weights`
RECURSIVE BatchFrom(_, _, _, _)
BatchFrom(start, weights, data, i) ==
    IF i > Len(data) THEN weights
    ELSE LET update == UpdateWeights(start, data[i])
         IN  BatchFrom(start, [j \in DOMAIN weights |-> weights[j] + update[j] - start[j]],
                       data, i + 1)

\* an epoch whose updates are applied at its end
EpochFrom_Batch(weights, data, i) == BatchFrom(weights, weights, data, i)

\* `for record in data`, from record i on
RECURSIVE EpochFrom(_, _, _)
EpochFrom(weights, data, i) ==
    IF i > Len(data) THEN weights
    ELSE EpochFrom(UpdateWeights(weights, data[i]), data, i + 1)

\* `for _ in 0..self.epochs`
RECURSIVE RunEpochs(_, _, _)
RunEpochs(weights, data, epochs) ==
    IF epochs = 0 THEN weights
    ELSE RunEpochs(EpochFrom(weights, data, 1), data, epochs - 1)

LogisticRegression_train(self, data) ==
    IF data = <<>> THEN self
    ELSE LET num_features == Len(data[1].features)
             zeros == [i \in 1..(num_features + 1) |-> 0]
         IN  [self EXCEPT !.weights = RunEpochs(zeros, data, self.epochs)]

LogisticRegression_predict(self, record) ==
    LET z == Dot(WithBias(record.features), self.weights)
        probability == sigmoid(z)
    IN  IF 2 * probability >= Scale THEN 1 ELSE 0

\* ------------------------------------------------------------------------
\* models/knn.rs
\* ------------------------------------------------------------------------
\* f32::MAX, the distance of two vectors of different lengths: the largest
\* finite f32, in units of 1/Scale
F32_MAX == 2147483646

\* what an f32 operation gives when its result is above f32::MAX
INFINITY == 2147483647

KNN_new(k) == [kind |-> "KNN", training_data |-> <<>>, k |-> k]

KNN_train(self, training_data) == [self EXCEPT !.training_data = training_data]

RECURSIVE SumOfSquaresFrom(_, _, _)
SumOfSquaresFrom(a, b, i) ==
    IF i > Len(a) THEN 0
    ELSE (a[i] - b[i]) * (a[i] - b[i]) + SumOfSquaresFrom(a, b, i + 1)

\* the sum of the squares overflows to infinity above f32::MAX, and the square
\* root of infinity is infinity
euclidean_distance(a, b) ==
    IF Len(a) # Len(b) THEN F32_MAX
    ELSE LET sum_of_squares == SumOfSquaresFrom(a, b, 1)
         IN  IF sum_of_squares > F32_MAX \div Scale THEN INFINITY
             ELSE Sqrt(sum_of_squares)

\* slice::sort_by is stable: an entry goes behind every entry that is not greater
InsertStable(sorted, entry) ==
    LET p == Cardinality({i \in DOMAIN sorted : sorted[i][1] <= entry[1]})
    IN  SubSeq(sorted, 1, p) \o <<entry>> \o SubSeq(sorted, p + 1, Len(sorted))

RECURSIVE SortByDistance(_, _)
SortByDistance(distances, n) ==
    IF n = 0 THEN <<>>
    ELSE InsertStable(SortByDistance(distances, n - 1), distances[n])

\* a take that never reaches the last entry
TakeLabels_DropsLast(sorted, k) == [i \in 1..Min(k, Len(sorted) - 1) |-> sorted[i][2]]

\* the labels of the first k entries: Iterator::take(k) stops at the end
TakeLabels(sorted, k) == [i \in 1..Min(k, Len(sorted)) |-> sorted[i][2]]

\* KNN::majority_vote with the tally enumerated in `order`
majority_vote(neighbors, order) == MaxByKey(order, CountVotes(neighbors), 0)

k_nearest(self, record) ==
    LET distances == [i \in DOMAIN self.training_data |->
                        <<euclidean_distance(record.features, self.training_data[i].features),
                          self.training_data[i].target>>]
    IN  TakeLabels(SortByDistance(distances, Len(distances)), self.k)

\* the labels predict can return: one per enumeration order of the tally
KNN_predict(self, record) ==
    IF self.training_data = <<>> THEN {0}
    ELSE LET neighbors == k_nearest(self, record)
         IN  {majority_vote(neighbors, o) : o \in HashOrders(Range(neighbors))}

\* ------------------------------------------------------------------------
\* models/naive_bayes.rs
\* ------------------------------------------------------------------------
\* f32::ln of the integer k >= 1, in units of 1/Scale: k = 2^e * m with
\* 1 <= m < 2, ln m = 2 artanh((m-1)/(m+1)) by its series
RECURSIVE Log2Floor(_)
Log2Floor(k) == IF k < 2 THEN 0 ELSE 1 + Log2Floor(k \div 2)

LnInt(k) ==
    LET e  == Log2Floor(k)
        p  == 2^e
        y  == ((k - p) * Scale) \div (k + p)
        y2 == (y * y) \div Scale
        t3 == (y2 * y) \div Scale
        t5 == (t3 * y2) \div Scale
        t7 == (t5 * y2) \div Scale
    IN  e * 6931 + 2 * (y + t3 \div 3 + t5 \div 5 + t7 \div 7)

\* f32::ln of the fraction x > 0
LnFrac(x) == LnInt(x.n) - LnInt(x.d)

\* a log posterior: a fixed-point number, NaN, or f32::NEG_INFINITY
LogNum(v) == [k |-> "num", v |-> v]

LogNaN == [k |-> "nan", v |-> 0]

NEG_INFINITY == [k |-> "ninf", v |-> 0]

\* a + b on f32 where b is a log likelihood and a an accumulated log posterior
LogAdd(a, b) ==
    IF a.k = "nan" \/ b.k = "nan" THEN LogNaN ELSE LogNum(a.v + b.v)

\* a > b on f32: false as soon as one side is NaN
LogGt(a, b) ==
    /\ a.k = "num"
    /\ \/ b.k = "ninf"
       \/ b.k = "num" /\ a.v > b.v

\* HashMap::new() for stats: no class
NoStats == [c \in {} |-> 0]

\* `hash_order` is the order in which the stats map enumerates the labels
GaussianNB_new(hash_order) ==
    [kind |-> "NB", stats |-> NoStats, hash_order |-> hash_order]

\* the records of one class, in the order of data
RECURSIVE ClassData(_, _, _)
ClassData(data, class, i) ==
    IF i > Len(data) THEN <<>>
    ELSE IF data[i].target = class THEN <<data[i]>> \o ClassData(data, class, i + 1)
    ELSE ClassData(data, class, i + 1)

RECURSIVE SumFrom(_, _)
SumFrom(values, i) == IF i > Len(values) THEN 0 ELSE values[i] + SumFrom(values, i + 1)

\* mean of the integer values: sum / len
Mean(values) == FDiv(SumFrom(values, 1), Len(values))

\* sum of (x - mean)^2 over the values, divided by len - 1; with sum = s and
\* len = n this is sum of (n x - s)^2 over n^2 (n - 1), and 0.0/0.0 for n = 1.
\* The guard 1e-9 the code adds is added where the variance is used.
Variance(values) ==
    LET n == Len(values)
        s == SumFrom(values, 1)
        squares == [i \in DOMAIN values |-> (n * values[i] - s) * (n * values[i] - s)]
    IN  FDiv(SumFrom(squares, 1), n * n * (n - 1))

\* ClassStats of one class of data
ClassStatsOf(class_data, total) ==
    LET num_features == Len(class_data[1].features)
        feature_values(i) == [r \in DOMAIN class_data |-> class_data[r].features[i]]
    IN  [mean     |-> [i \in 1..num_features |-> Mean(feature_values(i))],
         variance |-> [i \in 1..num_features |-> Variance(feature_values(i))],
         prior    |-> FDiv(Len(class_data), total)]

\* train: the classes of data are inserted into self.stats; stats is not cleared
GaussianNB_train(self, data) ==
    IF data = <<>> THEN self
    ELSE LET classes == {data[i].target : i \in DOMAIN data}
             stats == [c \in (DOMAIN self.stats) \cup classes |->
                          IF c \in classes
                          THEN ClassStatsOf(ClassData(data, c, 1), Len(data))
                          ELSE self.stats[c]]
         IN  [self EXCEPT !.stats = stats]

\* (calculate_likelihood(x, mean, variance) + 1e-10).ln() for an integer x, where
\* variance is the stored value, i.e. `variance` here plus 1e-9:
\*  - a NaN variance gives NaN;
\*  - a variance of exactly 1e-9 gives the density's peak ln(1/sqrt(2 pi 1e-9))
\*    at x = mean and elsewhere a density that underflows to 0, hence ln(1e-10);
\*  - otherwise -(x-mean)^2/(2 variance) - ln(2 pi variance)/2, and never less
\*    than ln(1e-10).
log_likelihood(x, mean, variance) ==
    IF variance.k # "num" \/ mean.k # "num" THEN LogNaN
    ELSE LET dn == x * mean.d - mean.n
             dd == mean.d
         IN  IF variance.n = 0
             THEN IF dn = 0 THEN LogNum(94427) ELSE LogNum(-230259)
             ELSE LET exponent == - ((dn * dn * variance.d * Scale)
                                        \div (2 * dd * dd * variance.n))
                      l == exponent - (18379 + LnFrac(variance)) \div 2
                  IN  LogNum(IF l < -230259 THEN -230259 ELSE l)

\* prior.ln() plus the log likelihoods of the features of record
RECURSIVE PosteriorFrom(_, _, _)
PosteriorFrom(class_stats, features, i) ==
    IF i = 0 THEN LogNum(LnFrac(class_stats.prior))
    ELSE LogAdd(PosteriorFrom(class_stats, features, i - 1),
                log_likelihood(features[i], class_stats.mean[i], class_stats.variance[i]))

Posterior(class_stats, record) ==
    PosteriorFrom(class_stats, record.features, Len(record.features))

\* the order in which self.stats enumerates its classes
StatsOrder(self) == SelectSeq(self.hash_order, LAMBDA c : c \in DOMAIN self.stats)

\* the loop of predict from the i-th enumerated class on
RECURSIVE BestClassFrom(_, _, _, _, _)
BestClassFrom(self, record, i, best_class, max_posterior) ==
    IF i > Len(StatsOrder(self)) THEN best_class
    ELSE LET class_value == StatsOrder(self)[i]
             posterior == Posterior(self.stats[class_value], record)
         IN  IF LogGt(posterior, max_posterior)
             THEN BestClassFrom(self, record, i + 1, class_value, posterior)
             ELSE BestClassFrom(self, record, i + 1, best_class, max_posterior)

GaussianNB_predict(self, record) == BestClassFrom(self, record, 1, 0, NEG_INFINITY)

\* ------------------------------------------------------------------------
\* models/decision_tree.rs
\* ------------------------------------------------------------------------
FracAdd(a, b) == Frac(a.n * b.d + b.n * a.d, a.d * b.d)

FracMul(a, b) == Frac(a.n * b.n, a.d * b.d)

\* a / b for b # 0
FracDiv(a, b) == Frac(a.n * b.d, a.d * b.n)

\* Node::Leaf and Node::Internal; feature_index counts from 1 here
Leaf(class) == [leaf |-> TRUE, class |-> class]

Internal(feature_index, threshold, left, right) ==
    [leaf |-> FALSE, feature_index |-> feature_index, threshold |-> threshold,
     left |-> left, right |-> right]

\* root is <<>> for None and <<node>> for Some(node)
DecisionTree_new(max_depth, min_samples_split) ==
    [kind |-> "DT", root |-> <<>>, max_depth |-> max_depth,
     min_samples_split |-> min_samples_split]

Targets(data) == [i \in DOMAIN data |-> data[i].target]

\* the number of records of `data` with label l
LabelCount(data, l) == Cardinality({i \in DOMAIN data : data[i].target = l})

\* most_common_class with the tally enumerated in `order`
most_common_class(data, order) == MaxByKey(order, CountVotes(Targets(data)), 0)

\* the labels most_common_class can return
MostCommonClasses(data) ==
    {most_common_class(data, o) : o \in HashOrders(Range(Targets(data)))}

\* x <= threshold for an integer feature value x
AtMost(x, threshold) == x * threshold.d <= threshold.n

RECURSIVE SplitFrom(_, _, _, _, _)
SplitFrom(data, feature_idx, threshold, i, side) ==
    IF i > Len(data) THEN <<>>
    ELSE LET rest == SplitFrom(data, feature_idx, threshold, i + 1, side)
         IN  IF AtMost(data[i].features[feature_idx], threshold) = side
             THEN <<data[i]>> \o rest
             ELSE rest

\* split_data: <<left, right>>
split_data(data, feature_idx, threshold) ==
    <<SplitFrom(data, feature_idx, threshold, 1, TRUE),
      SplitFrom(data, feature_idx, threshold, 1, FALSE)>>

\* the sum of count^2 over the classes of a tally
RECURSIVE SumSquares(_, _)
SumSquares(class_counts, classes) ==
    IF classes = {} THEN 0
    ELSE LET c == CHOOSE x \in classes : TRUE
         IN  class_counts[c] * class_counts[c] + SumSquares(class_counts, classes \ {c})

\* an impurity that subtracts the proportions instead of their squares
calculate_gini_Unsquared(data) ==
    IF data = <<>> THEN Zero
    ELSE Frac(Len(data) - LabelCount(data, 0) - LabelCount(data, 1), Len(data))

\* calculate_gini: 1 - sum of squared class proportions, 0 for no data
calculate_gini(data) ==
    IF data = <<>> THEN Zero
    ELSE LET class_counts == CountVotes(Targets(data))
             total == Len(data)
         IN  Frac(total * total - SumSquares(class_counts, DOMAIN class_counts),
                  total * total)

calculate_split_gini(left_data, right_data) ==
    LET total_size == Len(left_data) + Len(right_data)
    IN  FracAdd(FracMul(Frac(Len(left_data), total_size), calculate_gini(left_data)),
                FracMul(Frac(Len(right_data), total_size), calculate_gini(right_data)))

\* the distinct values of a set of integers in ascending order (sort, dedup)
RECURSIVE Ascending(_)
Ascending(values) ==
    IF values = {} THEN <<>>
    ELSE LET m == CHOOSE x \in values : \A y \in values : x <= y
         IN  <<m>> \o Ascending(values \ {m})

\* a + b on f32 for integers a, b >= 0 with a + b < 2^25: an f32 has 24
\* significant bits, so a sum below 2^24 is exact and a sum from 2^24 on is
\* rounded to an even integer, a tie to the one with the even significand
\* (the multiple of 4)
F32Add(a, b) ==
    LET sum == a + b
    IN  IF sum < 16777216 \/ sum % 2 = 0 THEN sum
        ELSE IF (sum + 1) % 4 = 0 THEN sum + 1 ELSE sum - 1

\* the thresholds of one feature, in the order of the inner loop:
\* (feature_values[i] + feature_values[i + 1]) / 2.0, the division being exact
Thresholds(data, feature_idx) ==
    LET feature_values == Ascending({data[i].features[feature_idx] : i \in DOMAIN data})
    IN  [i \in 1..(Len(feature_values) - 1) |->
            Frac(F32Add(feature_values[i], feature_values[i + 1]), 2)]

\* every (feature, threshold) in the order of the two loops of find_best_split
RECURSIVE CandidatesFrom(_, _)
CandidatesFrom(data, feature_idx) ==
    IF feature_idx > Len(data[1].features) THEN <<>>
    ELSE LET ts == Thresholds(data, feature_idx)
         IN  [i \in DOMAIN ts |-> <<feature_idx, ts[i]>>] \o CandidatesFrom(data, feature_idx + 1)

\* a loop that takes a candidate that is as good as the best so far
RECURSIVE BestSplitFrom_LastWins(_, _, _, _, _)
BestSplitFrom_LastWins(data, candidates, i, best_gini, best_split) ==
    IF i > Len(candidates) THEN best_split
    ELSE LET parts == split_data(data, candidates[i][1], candidates[i][2])
             gini == calculate_split_gini(parts[1], parts[2])
         IN  IF parts[1] = <<>> \/ parts[2] = <<>>
             THEN BestSplitFrom_LastWins(data, candidates, i + 1, best_gini, best_split)
             ELSE IF ~FGt(gini, best_gini)
             THEN BestSplitFrom_LastWins(data, candidates, i + 1, gini, <<candidates[i]>>)
             ELSE BestSplitFrom_LastWins(data, candidates, i + 1, best_gini, best_split)

\* the loop body over the candidates from the i-th on; best_split is <<>> for None
RECURSIVE BestSplitFrom(_, _, _, _, _)
BestSplitFrom(data, candidates, i, best_gini, best_split) ==
    IF i > Len(candidates) THEN best_split
    ELSE LET parts == split_data(data, candidates[i][1], candidates[i][2])
             gini == calculate_split_gini(parts[1], parts[2])
         IN  IF parts[1] = <<>> \/ parts[2] = <<>>
             THEN BestSplitFrom(data, candidates, i + 1, best_gini, best_split)
             ELSE IF FGt(best_gini, gini)
             THEN BestSplitFrom(data, candidates, i + 1, gini, <<candidates[i]>>)
             ELSE BestSplitFrom(data, candidates, i + 1, best_gini, best_split)

\* find_best_split: <<>> for None, <<(feature, threshold)>> for Some; best_gini
\* starts at f32::MAX, above every impurity
find_best_split(data) ==
    IF data = <<>> THEN <<>>
    ELSE BestSplitFrom(data, CandidatesFrom(data, 1), 1, PosInf, <<>>)

\* a build that stops one level too late
RECURSIVE build_tree_StopsLate(_, _, _)
build_tree_StopsLate(self, data, depth) ==
    IF data = <<>> THEN {Leaf(0)}
    ELSE IF \A i \in DOMAIN data : data[i].target = data[1].target
    THEN {Leaf(data[1].target)}
    ELSE IF depth > self.max_depth \/ Len(data) < self.min_samples_split
    THEN {Leaf(c) : c \in MostCommonClasses(data)}
    ELSE LET best == find_best_split(data)
         IN  IF best = <<>> THEN {Leaf(c) : c \in MostCommonClasses(data)}
             ELSE LET parts == split_data(data, best[1][1], best[1][2])
                  IN  {Internal(best[1][1], best[1][2], l, r) :
                          l \in build_tree_StopsLate(self, parts[1], depth + 1),
                          r \in build_tree_StopsLate(self, parts[2], depth + 1)}

\* a build that takes the data for pure when its first and last record agree
RECURSIVE build_tree_FirstAndLast(_, _, _)
build_tree_FirstAndLast(self, data, depth) ==
    IF data = <<>> THEN {Leaf(0)}
    ELSE IF data[Len(data)].target = data[1].target
    THEN {Leaf(data[1].target)}
    ELSE IF depth >= self.max_depth \/ Len(data) < self.min_samples_split
    THEN {Leaf(c) : c \in MostCommonClasses(data)}
    ELSE LET best == find_best_split(data)
         IN  IF best = <<>> THEN {Leaf(c) : c \in MostCommonClasses(data)}
             ELSE LET parts == split_data(data, best[1][1], best[1][2])
                  IN  {Internal(best[1][1], best[1][2], l, r) :
                          l \in build_tree_FirstAndLast(self, parts[1], depth + 1),
                          r \in build_tree_FirstAndLast(self, parts[2], depth + 1)}

\* build_tree: the trees the call can return, one per outcome of the
\* most_common_class calls it makes
RECURSIVE build_tree(_, _, _)
build_tree(self, data, depth) ==
    IF data = <<>> THEN {Leaf(0)}
    ELSE IF \A i \in DOMAIN data : data[i].target = data[1].target
    THEN {Leaf(data[1].target)}
    ELSE IF depth >= self.max_depth \/ Len(data) < self.min_samples_split
    THEN {Leaf(c) : c \in MostCommonClasses(data)}
    ELSE LET best == find_best_split(data)
         IN  IF best = <<>> THEN {Leaf(c) : c \in MostCommonClasses(data)}
             ELSE LET parts == split_data(data, best[1][1], best[1][2])
                  IN  {Internal(best[1][1], best[1][2], l, r) :
                          l \in build_tree(self, parts[1], depth + 1),
                          r \in build_tree(self, parts[2], depth + 1)}

\* a train that builds no tree from fewer than min_samples_split records
DecisionTree_train_NeedsMinSamples(self, training_data) ==
    IF training_data = <<>> \/ Len(training_data) < self.min_samples_split THEN {self}
    ELSE {[self EXCEPT !.root = <<t>>] : t \in build_tree(self, training_data, 0)}

\* train: the states the call can leave
DecisionTree_train(self, training_data) ==
    IF training_data = <<>> THEN {self}
    ELSE {[self EXCEPT !.root = <<t>>] : t \in build_tree(self, training_data, 0)}

\* the nodes of the tree build_tree(self, data, depth) returned as `node`, each
\* with the data and the depth of the call that made it: the call that makes an
\* internal node passes the two parts of split_data to the calls for its children
RECURSIVE NodesOf(_, _, _)
NodesOf(node, data, depth) ==
    {[node |-> node, data |-> data, depth |-> depth]}
    \cup IF node.leaf THEN {}
         ELSE LET parts == split_data(data, node.feature_index, node.threshold)
              IN  NodesOf(node.left, parts[1], depth + 1)
                  \cup NodesOf(node.right, parts[2], depth + 1)

RECURSIVE predict_from_node(_, _)
predict_from_node(node, features) ==
    IF node.leaf THEN node.class
    ELSE IF AtMost(features[node.feature_index], node.threshold)
    THEN predict_from_node(node.left, features)
    ELSE predict_from_node(node.right, features)

DecisionTree_predict(self, record) ==
    IF self.root = <<>> THEN 0 ELSE predict_from_node(self.root[1], record.features)

\* ------------------------------------------------------------------------
\* models/mod.rs: the Model trait, dispatched over the four models
\* ------------------------------------------------------------------------
\* train: the states the call can leave
BaseModel_train(self, data) ==
    CASE self.kind = "LR"  -> {LogisticRegression_train(self, data)}
      [] self.kind = "NB"  -> {GaussianNB_train(self, data)}
      [] self.kind = "KNN" -> {KNN_train(self, data)}
      [] self.kind = "DT"  -> DecisionTree_train(self, data)

\* predict: the labels the call can return
BaseModel_predict(self, record) ==
    CASE self.kind = "LR"  -> {LogisticRegression_predict(self, record)}
      [] self.kind = "NB"  -> {GaussianNB_predict(self, record)}
      [] self.kind = "KNN" -> KNN_predict(self, record)
      [] self.kind = "DT"  -> {DecisionTree_predict(self, record)}

\* ------------------------------------------------------------------------
\* ensemble.rs: VotingClassifier over a vector of the four models
\* ------------------------------------------------------------------------
VotingClassifier_new(models) == [kind |-> "VC", models |-> models]

\* `for model in &mut self.models { model.train(training_data) }` up to the
\* n-th member: the member vectors the loop can leave
RECURSIVE TrainMembers(_, _, _)
TrainMembers(models, training_data, n) ==
    IF n = 0 THEN {<<>>}
    ELSE {Append(ms, m) : ms \in TrainMembers(models, training_data, n - 1),
                          m \in BaseModel_train(models[n], training_data)}

\* a loop that returns after the first member
VotingClassifier_train_FirstOnly(self, training_data) ==
    {[self EXCEPT !.models = ms \o SubSeq(self.models, 2, Len(self.models))] :
        ms \in TrainMembers(self.models, training_data, Min(1, Len(self.models)))}

VotingClassifier_train(self, training_data) ==
    {[self EXCEPT !.models = ms] :
        ms \in TrainMembers(self.models, training_data, Len(self.models))}

\* the members whose train a train call on self calls, in the order of the
\* calls: `for model in &mut self.models`; one of the four models has no member
TrainCalls(self) ==
    IF self.kind = "VC" THEN [i \in 1..Len(self.models) |-> i] ELSE <<>>

\* the vote vectors the first loop of predict can collect
Votes(self, record) ==
    {v \in [DOMAIN self.models -> Labels] :
        \A i \in DOMAIN self.models : v[i] \in BaseModel_predict(self.models[i], record)}

\* a tally that lets the first member decide
Tally_FirstVote(votes, order) == IF votes = <<>> THEN 0 ELSE votes[1]

\* the tally of `votes` enumerated in `order`, then max_by_key; without any
\* entry the result is votes.first(), and 0 without any vote
Tally(votes, order) ==
    MaxByKey(order, CountVotes(votes), IF votes = <<>> THEN 0 ELSE votes[1])

\* predict: the (votes, label) pairs the call can produce
VotingClassifier_predict(self, record) ==
    UNION {{[votes |-> v, pred |-> Tally(v, o)] : o \in HashOrders(Range(v))} :
              v \in Votes(self, record)}

\* the Model trait over all five implementations
Model_train(self, data) ==
    IF self.kind = "VC" THEN VotingClassifier_train(self, data)
    ELSE BaseModel_train(self, data)

\* (votes, label) pairs; votes is empty for the four models
Model_predict(self, record) ==
    IF self.kind = "VC" THEN VotingClassifier_predict(self, record)
    ELSE {[votes |-> <<>>, pred |-> p] : p \in BaseModel_predict(self, record)}

\* the state of one of the four models right after its constructor
FreshBase(self) ==
    CASE self.kind = "LR"  -> [self EXCEPT !.weights = <<>>]
      [] self.kind = "NB"  -> [self EXCEPT !.stats = NoStats]
      [] self.kind = "KNN" -> [self EXCEPT !.training_data = <<>>]
      [] self.kind = "DT"  -> [self EXCEPT !.root = <<>>]

\* the state of a classifier right after its constructor
Fresh(self) ==
    IF self.kind = "VC"
    THEN [self EXCEPT !.models = [i \in DOMAIN self.models |-> FreshBase(self.models[i])]]
    ELSE FreshBase(self)

\* ------------------------------------------------------------------------
\* evaluation.rs
\* ------------------------------------------------------------------------
\* a match whose two arms for wrong predictions are exchanged
Bucket_SwapsErrors(prediction, target) ==
    CASE prediction = 1 /\ target = 1 -> "tp"
      [] prediction = 0 /\ target = 0 -> "tn"
      [] prediction = 1 /\ target = 0 -> "fn"
      [] prediction = 0 /\ target = 1 -> "fp"
      [] OTHER -> "none"

\* the match on (prediction, record.target): the bucket that gets += 1
Bucket(prediction, target) ==
    CASE prediction = 1 /\ target = 1 -> "tp"
      [] prediction = 0 /\ target = 0 -> "tn"
      [] prediction = 1 /\ target = 0 -> "fp"
      [] prediction = 0 /\ target = 1 -> "fn"
      [] OTHER -> "none"

\* the loop over test_data up to record n, given the predictions made
RECURSIVE Confusion(_, _, _)
Confusion(test_data, predictions, n) ==
    IF n = 0 THEN [tp |-> 0, tn |-> 0, fp |-> 0, fn |-> 0]
    ELSE LET c == Confusion(test_data, predictions, n - 1)
             b == Bucket(predictions[n], test_data[n].target)
         IN  IF b = "none" THEN c ELSE [c EXCEPT ![b] = @ + 1]

\* metrics whose F1 is the arithmetic mean of precision and recall
MetricsOf_MeanF1(c, len) ==
    LET accuracy  == FDiv(c.tp + c.tn, len)
        precision == IF c.tp + c.fp > 0 THEN FDiv(c.tp, c.tp + c.fp) ELSE Zero
        recall    == IF c.tp + c.fn > 0 THEN FDiv(c.tp, c.tp + c.fn) ELSE Zero
        f1_score  == FracMul(Frac(1, 2), FracAdd(precision, recall))
    IN  [accuracy |-> accuracy, precision |-> precision, recall |-> recall,
         f1_score |-> f1_score]

\* the four metrics from the counts and test_data.len()
MetricsOf(c, len) ==
    LET accuracy  == FDiv(c.tp + c.tn, len)
        precision == IF c.tp + c.fp > 0 THEN FDiv(c.tp, c.tp + c.fp) ELSE Zero
        recall    == IF c.tp + c.fn > 0 THEN FDiv(c.tp, c.tp + c.fn) ELSE Zero
        sum       == FracAdd(precision, recall)
        f1_score  == IF FGt(sum, Zero)
                     THEN FracDiv(FracMul(Frac(2, 1), FracMul(precision, recall)), sum)
                     ELSE Zero
    IN  [accuracy |-> accuracy, precision |-> precision, recall |-> recall,
         f1_score |-> f1_score]

\* calculate_metrics: the results the call can produce, with the log of its
\* predict calls (record, label) in the order they were made
calculate_metrics(model, test_data) ==
    LET outcomes == [i \in DOMAIN test_data |->
                        {o.pred : o \in Model_predict(model, test_data[i])}]
        runs == {p \in [DOMAIN test_data -> Labels] :
                    \A i \in DOMAIN test_data : p[i] \in outcomes[i]}
        Result(p) ==
            LET c == Confusion(test_data, p, Len(test_data))
            IN  [calls     |-> [i \in DOMAIN test_data |-> <<test_data[i], p[i]>>],
                 confusion |-> c,
                 metrics   |-> MetricsOf(c, Len(test_data))]
    IN  {Result(p) : p \in runs}

\* ------------------------------------------------------------------------
\* main.rs: the classifiers that are built
\* ------------------------------------------------------------------------
\* the four kinds of member of the ensemble of main; epochs and k are kept
\* small (main passes 1000 and 5), and the stats map of a GaussianNB member
\* enumerates label 0 first
MemberSet ==
    {LogisticRegression_new(MaxEpochs), GaussianNB_new(<<0, 1>>), KNN_new(1),
     DecisionTree_new(10, 2)}

BaseClassifiers ==
    {LogisticRegression_new(MaxEpochs)}
    \cup {GaussianNB_new(o) : o \in HashOrders(Labels)}
    \cup {KNN_new(k) : k \in 1..3}
    \cup {DecisionTree_new(0, 2), DecisionTree_new(10, 2)}

MainEnsemble ==
    VotingClassifier_new(<<LogisticRegression_new(MaxEpochs), GaussianNB_new(<<0, 1>>),
                           KNN_new(1), DecisionTree_new(10, 2)>>)

\* every ensemble of at most n members
Ensembles(n) == {VotingClassifier_new(ms) : ms \in SeqsUpTo(MemberSet, n)}

Classifiers == BaseClassifiers \cup Ensembles(2) \cup {MainEnsemble}

\* ------------------------------------------------------------------------
\* State
\* ------------------------------------------------------------------------
VARIABLES
    clf,    \* the classifier under test (a Box<dyn Model>)
    op,     \* the last call made: "new", "train", "predict" or "evaluate"
    calls,  \* the number of train calls made on clf
    prev,   \* whether the train call before the last one got a non-empty collection
    arg,    \* the collection passed to the last train call
    rec,    \* the record passed to the last predict call
    pred,   \* the label the last predict call returned
    votes,  \* the votes the last predict call of an ensemble collected
    test,   \* the collection passed to the last calculate_metrics call
    eval,   \* what the last calculate_metrics call returned, and its predict calls
    trained \* the members the last train call on clf trained, in the order of the calls

vars == <<clf, op, calls, prev, arg, rec, pred, votes, test, eval, trained>>

NoRecord == [features |-> <<0>>, target |-> 0]

NoEval == [calls |-> <<>>, confusion |-> [tp |-> 0, tn |-> 0, fp |-> 0, fn |-> 0],
           metrics |-> [accuracy |-> Zero, precision |-> Zero, recall |-> Zero,
                        f1_score |-> Zero]]

InitWith(classifiers) ==
    /\ clf \in classifiers
    /\ op = "new"
    /\ calls = 0
    /\ prev = FALSE
    /\ arg = <<>>
    /\ rec = NoRecord
    /\ pred = 0
    /\ votes = <<>>
    /\ test = <<>>
    /\ eval = NoEval
    /\ trained = <<>>

\* clf.train(data)
Train(data) ==
    /\ calls < MaxTrains
    /\ clf' \in Model_train(clf, data)
    /\ op' = "train"
    /\ calls' = calls + 1
    /\ prev' = (calls >= 1 /\ arg # <<>>)
    /\ arg' = data
    /\ rec' = NoRecord
    /\ pred' = 0
    /\ votes' = <<>>
    /\ test' = <<>>
    /\ eval' = NoEval
    /\ trained' = TrainCalls(clf)

\* clf.predict(record)
Predict(record) ==
    /\ \E o \in Model_predict(clf, record) :
          /\ pred' = o.pred
          /\ votes' = o.votes
    /\ rec' = record
    /\ op' = "predict"
    /\ UNCHANGED <<clf, calls, prev, arg, test, eval, trained>>

\* calculate_metrics(clf, test_data); the call changes nothing, so one call
\* per run shows all it can do
Evaluate(test_data) ==
    /\ op # "evaluate"
    /\ \E r \in calculate_metrics(clf, test_data) : eval' = r
    /\ test' = test_data
    /\ op' = "evaluate"
    /\ UNCHANGED <<clf, calls, prev, arg, rec, pred, votes, trained>>

\* The life of one classifier: any train and predict calls
Init == InitWith(Classifiers)

Next ==
    \/ \E data \in DataSets : Train(data)
    \/ \E record \in ProcessedPatientRecord : Predict(record)

Spec == Init /\ [][Next]_vars

\* Ensembles of up to MaxMembers members, trained at most once
VoteData ==
    {<<>>,
     <<[features |-> <<0>>, target |-> 0], [features |-> <<1>>, target |-> 1]>>,
     <<[features |-> <<0>>, target |-> 1], [features |-> <<1>>, target |-> 0]>>,
     <<[features |-> <<1>>, target |-> 1]>>}

InitVote == InitWith(Ensembles(MaxMembers))

TrainOnce(data) == calls = 0 /\ Train(data)

\* the first train call on clf, with one of `collections`
FirstTrain(collections) == calls = 0 /\ \E data \in collections : Train(data)

NextVote ==
    \/ \E data \in VoteData : TrainOnce(data)
    \/ \E record \in ProcessedPatientRecord : Predict(record)

SpecVote == InitVote /\ [][NextVote]_vars

\* Evaluation of a classifier that is untrained or was trained once
EvalClassifiers ==
    {LogisticRegression_new(MaxEpochs), GaussianNB_new(<<0, 1>>), KNN_new(1),
     DecisionTree_new(10, 2), MainEnsemble}

InitEval == InitWith(EvalClassifiers)

NextEval ==
    \/ \E data \in VoteData : TrainOnce(data)
    \/ \E test_data \in TestSets : Evaluate(test_data)

SpecEval == InitEval /\ [][NextEval]_vars

\* A KNN that is untrained or was trained once, on records whose feature
\* vectors differ in length and in magnitude: [1000] is at an infinite distance
\* from [0] and [1], since the square of the difference is above f32::MAX
KNNRecords ==
    [features : {<<0>>, <<2>>, <<1000>>, <<0, 0>>}, target : Labels]

KNNData == SeqsUpTo(KNNRecords, MaxStored)

KNNQueries == [features : {<<0>>, <<1>>}, target : {0}]

KNNClassifiers == {KNN_new(k) : k \in 1..(MaxStored + 1)}

InitKNN == InitWith(KNNClassifiers)

NextKNN ==
    \/ FirstTrain(KNNData)
    \/ \E record \in KNNQueries : Predict(record)

SpecKNN == InitKNN /\ [][NextKNN]_vars

\* A DecisionTree that is untrained or was trained once, on records of two
\* features: feature 0 has three values and feature 1 two, and every feature
\* vector can come with either label
TreeVectors == {<<0, 0>>, <<1, 1>>, <<2, 0>>}

TreeRecords == [features : TreeVectors, target : Labels]

TreeData == SeqsUpTo(TreeRecords, MaxTreeData)

TreeQueries == [features : {<<0, 0>>, <<2, 0>>, <<3, 3>>}, target : {0}]

\* main builds DecisionTree::new(10, 2)
TreeClassifiers ==
    {DecisionTree_new(0, 3), DecisionTree_new(1, 0), DecisionTree_new(10, 2),
     DecisionTree_new(10, 3)}

InitTree == InitWith(TreeClassifiers)

NextTree ==
    \/ FirstTrain(TreeData)
    \/ \E record \in TreeQueries : Predict(record)

SpecTree == InitTree /\ [][NextTree]_vars

\* A DecisionTree that is untrained or was trained once and is asked about the
\* records it may have been trained on. 8388609 and 8388610 are adjacent f32
\* values: their sum 16777219 is no f32 and rounds to 16777220
FitRecords ==
    [features : {<<0, 0>>, <<1, 1>>, <<8388609, 0>>, <<8388610, 0>>}, target : Labels]

FitData == SeqsUpTo(FitRecords, MaxFitData)

FitClassifiers ==
    {DecisionTree_new(10, 2), DecisionTree_new(MaxFitData, 0), DecisionTree_new(1, 2)}

InitFit == InitWith(FitClassifiers)

NextFit ==
    \/ FirstTrain(FitData)
    \/ \E record \in FitRecords : Predict(record)

SpecFit == InitFit /\ [][NextFit]_vars

\* A LogisticRegression of 0 to MaxEpochs epochs, trained any number of times
\* up to MaxTrains on collections of records of one or of two features
WideRecords == [features : {<<1, 0>>, <<0, 2>>}, target : Labels]

LRData == DataSets \cup SeqsUpTo(WideRecords, MaxData)

LRClassifiers == {LogisticRegression_new(epochs) : epochs \in 0..MaxEpochs}

InitLR == InitWith(LRClassifiers)

\* one record of each width to predict
LRQueries == {[features |-> <<1>>, target |-> 0], [features |-> <<1, 0>>, target |-> 0]}

NextLR ==
    \/ \E data \in LRData : Train(data)
    \/ \E record \in LRQueries : Predict(record)

SpecLR == InitLR /\ [][NextLR]_vars

\* ------------------------------------------------------------------------
\* Properties
\* ------------------------------------------------------------------------
\* the number of votes for label l
VotesFor(l) == Cardinality({i \in DOMAIN votes : votes[i] = l})

\* the predictions calculate_metrics got, in the order of its calls
Predictions == [i \in DOMAIN eval.calls |-> eval.calls[i][2]]

\* the test records with prediction p and true label t
Outcomes(p, t) ==
    Cardinality({i \in DOMAIN test : Predictions[i] = p /\ test[i].target = t})

\* C1: predict on an instance on which train was never called returns 0, for
\* each of the five classifiers and every record.
UntrainedPredictsZero == (op = "predict" /\ calls = 0) => pred = 0

\* C2: after train(A) then train(B), A and B not empty, the classifier is in a
\* state a fresh instance can be in after train(B) alone: nothing of A is left.
RetrainReplacesState ==
    (op = "train" /\ calls >= 2 /\ prev /\ arg # <<>>)
        => clf \in Model_train(Fresh(clf), arg)

\* C3: train with an empty collection leaves the classifier as a whole either
\* untrained or exactly as it was before the call.
EmptyTrainIsNoOp ==
    [][(op' = "train" /\ calls' = calls + 1 /\ arg' = <<>>)
          => (clf' = clf \/ clf' = Fresh(clf'))]_vars

\* C4: for a fixed trained classifier and a fixed record, every call to predict
\* returns the same label, tied tallies included.
PredictIsDeterministic ==
    [][(calls >= 1 /\ arg # <<>> /\ op = "predict" /\ op' = "predict"
           /\ rec' = rec /\ clf' = clf)
          => pred' = pred]_vars

\* C5: when one label has strictly more votes than every other label, the
\* ensemble returns that label, for any number and order of members.
StrictMajorityWins ==
    (op = "predict" /\ clf.kind = "VC")
        => \A l \in Labels :
              (\A m \in Labels \ {l} : VotesFor(l) > VotesFor(m)) => pred = l

\* the votes are {1,1,0} and the ensemble has returned 1
MajorityOfThreeReached ==
    op = "predict" /\ clf.kind = "VC" /\ votes = <<1, 1, 0>> /\ pred = 1

\* C6: when the two labels have equally many votes, the ensemble returns the
\* prediction of its first member.
TieGoesToFirstMember ==
    (op = "predict" /\ clf.kind = "VC" /\ votes # <<>> /\ VotesFor(0) = VotesFor(1))
        => pred = votes[1]

\* C7: calculate_metrics calls predict once per test record, in order, and each
\* outcome lands in exactly one bucket by (prediction, true label), so that
\* TP+TN+FP+FN is the number of test records.
ConfusionCountsEveryRecord ==
    op = "evaluate"
        => /\ Len(eval.calls) = Len(test)
           /\ \A i \in DOMAIN test :
                 /\ eval.calls[i][1] = test[i]
                 /\ eval.calls[i][2] \in {o.pred : o \in Model_predict(clf, test[i])}
           /\ eval.confusion.tp = Outcomes(1, 1)
           /\ eval.confusion.tn = Outcomes(0, 0)
           /\ eval.confusion.fp = Outcomes(1, 0)
           /\ eval.confusion.fn = Outcomes(0, 1)
           /\ eval.confusion.tp + eval.confusion.tn + eval.confusion.fp
                + eval.confusion.fn = Len(test)

\* an evaluation of a trained classifier in which every bucket was hit
EveryBucketHit ==
    /\ op = "evaluate"
    /\ calls = 1
    /\ eval.confusion.tp > 0
    /\ eval.confusion.tn > 0
    /\ eval.confusion.fp > 0
    /\ eval.confusion.fn > 0

\* C8: for every test collection, the empty one included, each of the four
\* metrics is a defined number, and a metric with a zero denominator is 0.
MetricsAlwaysDefined ==
    op = "evaluate"
        => /\ \A m \in DOMAIN eval.metrics : IsNum(eval.metrics[m])
           /\ Len(test) = 0 => eval.metrics.accuracy = Zero
           /\ eval.confusion.tp + eval.confusion.fp = 0 => eval.metrics.precision = Zero
           /\ eval.confusion.tp + eval.confusion.fn = 0 => eval.metrics.recall = Zero
           /\ eval.confusion.tp = 0 => eval.metrics.f1_score = Zero

\* C9: for a non-empty test collection, accuracy = (TP+TN)/total, precision =
\* TP/(TP+FP), recall = TP/(TP+FN) and F1 = 2 precision recall/(precision+recall)
\* = 2TP/(2TP+FP+FN), each 0 where TP = 0; true labels [1,0,1,0] with predictions
\* [1,0,0,1] give one record per bucket and 1/2 for every metric; predictions all
\* 0 on labels all 1 give TP = 0, FN = N and 0 for every metric.
MetricsFollowCounts ==
    (op = "evaluate" /\ test # <<>>)
        => LET c == eval.confusion
               m == eval.metrics
               half == [k |-> "num", n |-> 1, d |-> 2]
               none == [k |-> "num", n |-> 0, d |-> 1]
           IN  /\ m.accuracy.k = "num"
               /\ m.accuracy.n * Len(test) = (c.tp + c.tn) * m.accuracy.d
               /\ m.precision.k = "num"
               /\ m.precision.n * (c.tp + c.fp) = c.tp * m.precision.d
               /\ m.recall.k = "num"
               /\ m.recall.n * (c.tp + c.fn) = c.tp * m.recall.d
               /\ m.f1_score.k = "num"
               /\ m.f1_score.n * (2 * c.tp + c.fp + c.fn) = 2 * c.tp * m.f1_score.d
               /\ c.tp = 0 => (m.precision = none /\ m.recall = none /\ m.f1_score = none)
               /\ (Targets(test) = <<1, 0, 1, 0>> /\ Predictions = <<1, 0, 0, 1>>)
                     => /\ c = [tp |-> 1, tn |-> 1, fp |-> 1, fn |-> 1]
                        /\ m = [accuracy |-> half, precision |-> half, recall |-> half,
                                f1_score |-> half]
               /\ (\A i \in DOMAIN test : test[i].target = 1 /\ Predictions[i] = 0)
                     => /\ c = [tp |-> 0, tn |-> 0, fp |-> 0, fn |-> Len(test)]
                        /\ m = [accuracy |-> none, precision |-> none, recall |-> none,
                                f1_score |-> none]

\* true labels [1,0,1,0] were evaluated with predictions [1,0,0,1]
FourRecordExampleReached ==
    op = "evaluate" /\ Targets(test) = <<1, 0, 1, 0>> /\ Predictions = <<1, 0, 0, 1>>

\* C10: a fresh GaussianNB trained on a non-empty collection whose records all
\* have label c (a single record included) predicts c for every record.
SingleClassNBPredictsIt ==
    (clf.kind = "NB" /\ op = "predict" /\ calls = 1 /\ arg # <<>>)
        => \A c \in Labels :
              (\A i \in DOMAIN arg : arg[i].target = c) => pred = c

\* the sum of the priors of the classes in `classes` of a stats map
RECURSIVE PriorSum(_, _)
PriorSum(stats, classes) ==
    IF classes = {} THEN Zero
    ELSE LET c == CHOOSE x \in classes : TRUE
         IN  FracAdd(stats[c].prior, PriorSum(stats, classes \ {c}))

\* C11: after one or more train calls on a GaussianNB, each with a non-empty
\* collection, the priors of all the classes held in its state sum to 1.
PriorsSumToOne ==
    (clf.kind = "NB" /\ arg # <<>> /\ (calls = 1 \/ (calls = 2 /\ prev)))
        => PriorSum(clf.stats, DOMAIN clf.stats) = Frac(1, 1)

\* C12: a KNN with k above the number n >= 1 of stored records predicts without
\* failing, and returns a label that no other label outnumbers among all the n
\* stored records.
KBeyondStoredUsesAll ==
    (clf.kind = "KNN" /\ op = "predict" /\ Len(clf.training_data) >= 1
        /\ clf.k > Len(clf.training_data))
        => /\ Len(k_nearest(clf, rec)) = Len(clf.training_data)
           /\ \A l \in Labels :
                 LabelCount(clf.training_data, pred) >= LabelCount(clf.training_data, l)

\* three records are stored, two of them with label 1 and the farthest with
\* label 0, k is 4, and predict has returned 1
KBeyondStoredReached ==
    /\ clf.kind = "KNN"
    /\ op = "predict"
    /\ clf.k = 4
    /\ Targets(clf.training_data) = <<1, 0, 1>>
    /\ clf.training_data[2].features = <<1000>>
    /\ pred = 1

\* C13: whatever max_depth and min_samples_split are, a DecisionTree trained on
\* a non-empty collection whose records all have label c predicts c for every
\* record, whatever its feature values.
SingleLabelTreePredictsIt ==
    (clf.kind = "DT" /\ op = "predict" /\ calls = 1 /\ arg # <<>>)
        => \A c \in Labels :
              (\A i \in DOMAIN arg : arg[i].target = c) => pred = c

\* a tree with max_depth 0 and min_samples_split 3, trained on two records of
\* label 1 with different features, has predicted 1 for a record it never saw
SingleLabelTreeReached ==
    /\ clf.kind = "DT"
    /\ op = "predict"
    /\ clf.max_depth = 0
    /\ clf.min_samples_split = 3
    /\ Targets(arg) = <<1, 1>>
    /\ arg[1].features # arg[2].features
    /\ rec.features = <<3, 3>>
    /\ pred = 1

\* the nodes of the tree the last train call built, with the data and the depth
\* of their build_tree calls
TreeNodes ==
    IF clf.kind = "DT" /\ clf.root # <<>> THEN NodesOf(clf.root[1], arg, 0) ELSE {}

\* all the records of data have label c
Pure(data, c) == \A i \in DOMAIN data : data[i].target = c

\* C14: for every leaf of a trained tree, either all the training records that
\* reached it during the build have the leaf's label, or the leaf comes from the
\* stopping rule: its depth is max_depth or more, or it holds fewer than
\* min_samples_split records.
LeafIsPureOrStopped ==
    (op = "train" /\ calls = 1)
        => \A x \in TreeNodes :
              x.node.leaf
                  => \/ Pure(x.data, x.node.class)
                     \/ x.depth >= clf.max_depth
                     \/ Len(x.data) < clf.min_samples_split

\* no midpoint of a feature divides data into two non-empty parts
NoProperSplit(data) ==
    \A f \in DOMAIN data[1].features :
        \A i \in DOMAIN Thresholds(data, f) :
            LET parts == split_data(data, f, Thresholds(data, f)[i])
            IN  parts[1] = <<>> \/ parts[2] = <<>>

\* C14 amended: ... or the leaf comes from the stopping rule, or no candidate
\* split of the records that reached it has two non-empty sides (as when they
\* all have the same feature vector), so that find_best_split found none.
LeafIsPureStoppedOrUnsplittable ==
    (op = "train" /\ calls = 1)
        => \A x \in TreeNodes :
              x.node.leaf
                  => \/ Pure(x.data, x.node.class)
                     \/ x.depth >= clf.max_depth
                     \/ Len(x.data) < clf.min_samples_split
                     \/ NoProperSplit(x.data)

\* a tree whose root is split into a leaf of three records with one feature
\* vector and two labels, above the stopping rule, and a pure leaf
UnsplittableLeafReached ==
    /\ op = "train"
    /\ calls = 1
    /\ \E x, y \in TreeNodes :
          /\ x.node.leaf /\ y.node.leaf
          /\ x.depth = 1 /\ y.depth = 1
          /\ x.depth < clf.max_depth
          /\ Len(x.data) = 3
          /\ Len(x.data) >= clf.min_samples_split
          /\ ~Pure(x.data, x.node.class)
          /\ NoProperSplit(x.data)
          /\ Pure(y.data, y.node.class)

\* the parts of every candidate split of data: every feature, every midpoint
CandidateParts(data) ==
    UNION {UNION {{split_data(data, f, Thresholds(data, f)[i])[1],
                   split_data(data, f, Thresholds(data, f)[i])[2]} :
                     i \in DOMAIN Thresholds(data, f)} :
              f \in DOMAIN data[1].features}

\* the collections calculate_gini is given while the tree is built: the two
\* parts of every candidate split of the data of every node; and the data of the
\* nodes themselves
GiniInputs ==
    {x.data : x \in TreeNodes} \cup UNION {CandidateParts(x.data) : x \in TreeNodes}

SplitImprovesPurity ==
    (op = "train" /\ calls = 1)
        => \A x \in TreeNodes :
              ~x.node.leaf
                  => LET parts == split_data(x.data, x.node.feature_index, x.node.threshold)
                     IN  FGt(calculate_gini(x.data), calculate_split_gini(parts[1], parts[2]))

\* C17: build_tree ends with a tree none of whose nodes is deeper than
\* max_depth: a node at depth max_depth or more, or with fewer than
\* min_samples_split records, is a leaf, and the two parts an internal node hands
\* to its children are non-empty and smaller than its own data.
TreeIsBounded ==
    (op = "train" /\ calls = 1)
        => /\ Cardinality(TreeNodes) <= 2 * Len(arg)
           /\ \A x \in TreeNodes :
                 /\ x.depth <= clf.max_depth
                 /\ (x.depth >= clf.max_depth \/ Len(x.data) < clf.min_samples_split)
                       => x.node.leaf
                 /\ ~x.node.leaf
                       => LET parts == split_data(x.data, x.node.feature_index,
                                                  x.node.threshold)
                          IN  /\ parts[1] # <<>>
                              /\ parts[2] # <<>>
                              /\ Len(parts[1]) < Len(x.data)
                              /\ Len(parts[2]) < Len(x.data)
                              /\ Len(parts[1]) + Len(parts[2]) = Len(x.data)

\* a tree with max_depth 1 whose root is split and has a child that is a leaf
\* although its records have two labels and could be split further
DepthStoppedLeafReached ==
    /\ op = "train"
    /\ calls = 1
    /\ clf.max_depth = 1
    /\ \E x \in TreeNodes :
          /\ x.depth = 1
          /\ x.node.leaf
          /\ Len(x.data) >= clf.min_samples_split
          /\ ~Pure(x.data, x.node.class)
          /\ ~NoProperSplit(x.data)

\* the midpoints between adjacent distinct values of feature f in data
Midpoints(data, f) ==
    LET values == {data[i].features[f] : i \in DOMAIN data}
    IN  {Frac(a + b, 2) : <<a, b>> \in
            {p \in values \X values :
                p[1] < p[2] /\ ~\E c \in values : p[1] < c /\ c < p[2]}}

\* the candidates (feature, midpoint) that leave records on both sides
ProperSplits(data) ==
    {c \in UNION {{<<f, t>> : t \in Midpoints(data, f)} : f \in DOMAIN data[1].features} :
        /\ \E i \in DOMAIN data : AtMost(data[i].features[c[1]], c[2])
        /\ \E i \in DOMAIN data : ~AtMost(data[i].features[c[1]], c[2])}

\* the weighted Gini impurity of the candidate c on data
SplitGini(data, c) ==
    calculate_split_gini(split_data(data, c[1], c[2])[1], split_data(data, c[1], c[2])[2])

\* candidate c is met before candidate e: lower feature index, or the same
\* feature and a lower threshold
MetBefore(c, e) == c[1] < e[1] \/ (c[1] = e[1] /\ FGt(e[2], c[2]))

\* C18: find_best_split returns none exactly when no midpoint of any feature
\* leaves records on both sides; otherwise it returns such a candidate, of the
\* lowest weighted Gini impurity, and among those of that impurity the one met
\* first in the order of feature index and ascending threshold. The split of an
\* internal node is the one find_best_split returns for its data.
BestSplitIsFirstLowest ==
    (op = "train" /\ calls = 1)
        => \A x \in TreeNodes :
              LET best == find_best_split(x.data)
              IN  /\ (best = <<>>) <=> (ProperSplits(x.data) = {})
                  /\ best # <<>>
                        => /\ best[1] \in ProperSplits(x.data)
                           /\ \A c \in ProperSplits(x.data) :
                                 /\ ~FGt(SplitGini(x.data, best[1]), SplitGini(x.data, c))
                                 /\ (SplitGini(x.data, c) = SplitGini(x.data, best[1])
                                        /\ c # best[1])
                                       => MetBefore(best[1], c)
                  /\ ~x.node.leaf
                        => best = <<<<x.node.feature_index, x.node.threshold>>>>

\* the root was split at threshold 1/2 of feature 0 although threshold 3/2 is
\* exactly as good, and feature 1 is worse
TiedThresholdsReached ==
    /\ op = "train"
    /\ calls = 1
    /\ clf.root # <<>>
    /\ ~clf.root[1].leaf
    /\ clf.root[1].feature_index = 1
    /\ clf.root[1].threshold = [k |-> "num", n |-> 1, d |-> 2]
    /\ <<1, [k |-> "num", n |-> 3, d |-> 2]>> \in ProperSplits(arg)
    /\ SplitGini(arg, <<1, [k |-> "num", n |-> 3, d |-> 2]>>)
          = SplitGini(arg, <<1, [k |-> "num", n |-> 1, d |-> 2]>>)
    /\ \E c \in ProperSplits(arg) :
          c[1] = 2 /\ FGt(SplitGini(arg, c), SplitGini(arg, <<1, [k |-> "num", n |-> 1, d |-> 2]>>))

\* the distance of the i-th stored record from the record of the last predict
DistanceTo(i) == euclidean_distance(rec.features, clf.training_data[i].features)

\* the place of the i-th stored record in a stable ascending sort by distance
Rank(i) ==
    Cardinality({j \in DOMAIN clf.training_data :
                    \/ DistanceTo(j) < DistanceTo(i)
                    \/ DistanceTo(j) = DistanceTo(i) /\ j <= i})

\* the stored records among the min(k, n) nearest
Selected ==
    {i \in DOMAIN clf.training_data : Rank(i) <= Min(clf.k, Len(clf.training_data))}

\* the stored records whose feature vector has the length of the query's
Matching ==
    {i \in DOMAIN clf.training_data :
        Len(clf.training_data[i].features) = Len(rec.features)}

\* the number of selected records with label l
SelectedWith(l) == Cardinality({i \in Selected : clf.training_data[i].target = l})

\* C19: predict takes the labels of the min(k, n) stored records that come
\* first in a stable ascending sort by distance and returns a label that no
\* other label outnumbers among them; a stored record whose feature vector has
\* another length than the query's gets the largest distance, so that it is not
\* among the selected ones as long as k is at most the number of stored records
\* of the query's length.
NearestByStableSort ==
    (clf.kind = "KNN" /\ op = "predict" /\ clf.training_data # <<>>)
        => /\ Len(k_nearest(clf, rec)) = Min(clf.k, Len(clf.training_data))
           /\ \A i \in Selected : k_nearest(clf, rec)[Rank(i)] = clf.training_data[i].target
           /\ \A l \in Labels : SelectedWith(pred) >= SelectedWith(l)
           /\ \A i \in DOMAIN clf.training_data \ Matching :
                 clf.k <= Cardinality(Matching) => i \notin Selected

\* C20: a train call on an ensemble calls train once on every member, in the
\* order of the collection and with the collection it was given, and leaves
\* each member in a state that member can reach when it alone is trained on
\* that collection from the state it had.
MembersTrainedAlone ==
    [][(op' = "train" /\ calls' = calls + 1 /\ clf.kind = "VC")
          => /\ trained' = [i \in 1..Len(clf.models) |-> i]
             /\ Len(clf'.models) = Len(clf.models)
             /\ \A i \in DOMAIN clf.models :
                   clf'.models[i] \in BaseModel_train(clf.models[i], arg')]_vars

\* an ensemble of a DecisionTree, a KNN and a LogisticRegression after a train
\* call with two records: the three members were trained in this order, the
\* tree is built, the records are stored and the weights are set
ThreeMembersTrainedReached ==
    /\ op = "train"
    /\ clf.kind = "VC"
    /\ Len(clf.models) = 3
    /\ trained = <<1, 2, 3>>
    /\ Len(arg) = 2
    /\ clf.models[1].kind = "DT" /\ clf.models[1].root # <<>>
    /\ clf.models[2].kind = "KNN" /\ clf.models[2].training_data = arg
    /\ clf.models[3].kind = "LR" /\ Len(clf.models[3].weights) = 2

\* no two records of data have the same features and different labels
Consistent(data) ==
    \A i, j \in DOMAIN data :
        data[i].features = data[j].features => data[i].target = data[j].target

\* C21: predict takes a training record to the leaf it reached during the
\* build, so it returns the label of that leaf; hence a tree with max_depth at
\* least the number of records and min_samples_split at most 2, trained on
\* records none of which has the features of another and a different label,
\* predicts the label of every training record.
TreeRoutesAsBuilt ==
    (clf.kind = "DT" /\ op = "predict" /\ calls = 1 /\ rec \in Range(arg))
        => /\ \A x \in TreeNodes :
                 (x.node.leaf /\ rec \in Range(x.data)) => pred = x.node.class
           /\ (clf.max_depth >= Len(arg) /\ clf.min_samples_split <= 2 /\ Consistent(arg))
                 => pred = rec.target

\* the weights after t visits of train on data: visit t is of the record at
\* place ((t - 1) mod n) + 1, and its error is computed with the weights that
\* the t - 1 visits before it left
RECURSIVE OnlineWeights(_, _)
OnlineWeights(data, t) ==
    IF t = 0 THEN [i \in 1..(Len(data[1].features) + 1) |-> 0]
    ELSE LET before == OnlineWeights(data, t - 1)
             record == data[((t - 1) % Len(data)) + 1]
             input == <<1>> \o record.features
             error == record.target * Scale - sigmoid(Dot(input, before))
         IN  [i \in DOMAIN before |->
                 before[i] + (LearningRateNum * error * input[i]) \div LearningRateDen]

\* C22: train on a non-empty collection of records of F features sets the
\* weights to F+1 zeros, whatever they were, and then visits every record once
\* per epoch in the order of the collection, adding learning_rate * (label -
\* sigmoid(w . [1, features])) * input[i] to weight i at once, so that the error
\* of a record is computed with the weights all the earlier visits left; the
\* weight vector has length F+1 afterwards.
TrainIsOnlineDescent ==
    (clf.kind = "LR" /\ op = "train" /\ arg # <<>>)
        => /\ Len(clf.weights) = Len(arg[1].features) + 1
           /\ clf.weights = OnlineWeights(arg, clf.epochs * Len(arg))

\* a second train call, of two epochs over two records of one feature after a
\* collection of two features, in which the second record saw the update of
\* the first
SecondRecordSawFirstReached ==
    /\ clf.kind = "LR"
    /\ op = "train"
    /\ calls = 2
    /\ prev
    /\ clf.epochs = 2
    /\ arg = <<[features |-> <<1>>, target |-> 1], [features |-> <<1>>, target |-> 0]>>
    /\ clf.weights # EpochFrom_Batch(EpochFrom_Batch(<<0, 0>>, arg, 1), arg, 1)
    /\ Len(clf.weights) = 2

====
